---------------------------- MODULE Spec2Model ----------------------------
(***************************************************************************)
(* A model of the chart-generation core of src/app.py:                     *)
(*   generate_chart        the request handler (dispatch by language tag)  *)
(*   execute_python_code   the embedded path: source rewriting, exec       *)
(*   execute_r_code        the external-process path: temp dir, Rscript,   *)
(*                         failure-message construction                    *)
(* Text is modelled as sequences.  Diagnostic text of the R path is a      *)
(* sequence of characters, because the code slices it by character count   *)
(* and searches it for substrings.  Python source is a sequence of         *)
(* lexemes in which every character the code's patterns distinguish        *)
(* (parentheses, quotes, comma, space, newline) is a lexeme of its own.    *)
(***************************************************************************)
EXTENDS Integers, Sequences, FiniteSets, TLC

(***************************************************************************)
(* Bounds of the model.                                                    *)
(***************************************************************************)
\* segments in a submitted snippet
MaxSegs ==
    2
\* rows of tabular data
MaxRows ==
    2
\* requests served by the threads of one worker
MaxRequests ==
    3
\* lines in a diagnostic stream of the renderer
MaxLines ==
    2
\* length of the long diagnostic line that carries an error keyword
LongLen ==
    500
\* length of the long diagnostic line that carries no error keyword
PlainLen ==
    250

(***************************************************************************)
(* Program constants of execute_r_code.                                    *)
(***************************************************************************)
FALLBACK_LIMIT ==
    200
MESSAGE_LIMIT ==
    300
R_TIMEOUT ==
    90

(***************************************************************************)
(* Generic sequence helpers (Python str operations).                       *)
(***************************************************************************)
\* str.isspace for one character
IsSpace(c) == c \in {" ", "\n", "\t", "\r"}

\* s[:n]
Take(s, n) == SubSeq(s, 1, IF n < Len(s) THEN n ELSE Len(s))

\* s.startswith(p)
StartsWith(s, p) ==
    /\ Len(p) <= Len(s)
    /\ \A k \in 1..Len(p) : s[k] = p[k]

\* sub occurs in s at index i
OccursAt(s, sub, i) ==
    /\ i >= 1
    /\ i + Len(sub) - 1 <= Len(s)
    /\ \A k \in 1..Len(sub) : s[i + k - 1] = sub[k]

\* sub in s
Contains(s, sub) == \E i \in 1..(Len(s) - Len(sub) + 1) : OccursAt(s, sub, i)

\* s.strip()
Strip(s) ==
    IF \A i \in 1..Len(s) : IsSpace(s[i]) THEN <<>>
    ELSE LET first == CHOOSE i \in 1..Len(s) :
                          ~IsSpace(s[i]) /\ \A j \in 1..(i - 1) : IsSpace(s[j])
             last  == CHOOSE i \in 1..Len(s) :
                          ~IsSpace(s[i]) /\ \A j \in (i + 1)..Len(s) : IsSpace(s[j])
         IN  SubSeq(s, first, last)

\* s.split(sep) for a one-character separator
Split(s, sep) ==
    LET brk == {i \in 1..Len(s) : s[i] = sep}
        n   == Cardinality(brk)
        kth(k) == IF k = 0 THEN 0
                  ELSE IF k = n + 1 THEN Len(s) + 1
                  ELSE CHOOSE p \in brk : Cardinality({q \in brk : q < p}) = k - 1
    IN  [k \in 1..(n + 1) |-> SubSeq(s, kth(k - 1) + 1, kth(k) - 1)]

\* sep.join(parts)
RECURSIVE Join(_, _)
Join(parts, sep) ==
    IF parts = <<>> THEN <<>>
    ELSE IF Len(parts) = 1 THEN parts[1]
    ELSE LET h == Len(parts) \div 2
         IN  Join(SubSeq(parts, 1, h), sep) \o <<sep>>
             \o Join(SubSeq(parts, h + 1, Len(parts)), sep)

\* the letters str.lower() changes
LowerMap ==
    ("A" :> "a") @@ ("B" :> "b") @@ ("C" :> "c") @@ ("D" :> "d") @@ ("E" :> "e") @@
    ("F" :> "f") @@ ("G" :> "g") @@ ("H" :> "h") @@ ("I" :> "i") @@ ("J" :> "j") @@
    ("K" :> "k") @@ ("L" :> "l") @@ ("M" :> "m") @@ ("N" :> "n") @@ ("O" :> "o") @@
    ("P" :> "p") @@ ("Q" :> "q") @@ ("R" :> "r") @@ ("S" :> "s") @@ ("T" :> "t") @@
    ("U" :> "u") @@ ("V" :> "v") @@ ("W" :> "w") @@ ("X" :> "x") @@ ("Y" :> "y") @@
    ("Z" :> "z")

\* s.lower()
Lower(s) == [i \in 1..Len(s) |-> IF s[i] \in DOMAIN LowerMap THEN LowerMap[s[i]] ELSE s[i]]

\* n copies of character c
Pad(c, n) == [i \in 1..n |-> c]

(***************************************************************************)
(* State.                                                                  *)
(***************************************************************************)
VARIABLES
    \* generate_chart: one request in the handler
    h_req,          \* the JSON body of the request
    h_pc,           \* the handler's position
    h_calls,        \* how often each execution adapter was invoked for the request
    h_args,         \* the style arguments the handler passed to the adapter
    h_resp,         \* the response
    \* execute_python_code: one call of the embedded-path adapter
    py_in,          \* its arguments: code, csv_data, img_bg_choice, chart_bg_choice
    py_pc,          \* its position
    save_repl,      \* the style/save sequence built for the request
    modified_code,  \* the program being rewritten
    csv_data_string,\* the CSV text, once generated
    img_buffer,     \* the byte sink: "empty", "png" or "fallback"
    py_out,         \* what the call returns or raises
    \* execute_r_code: one call of the external-process adapter
    r_in,           \* its arguments: csv_data, img_bg_choice, chart_bg_choice, show_grid_lines
    r_pc,           \* its position
    temp_dir,       \* the TemporaryDirectory: whether it exists, and the files in it
    r_command,      \* the argument vector built for subprocess.run
    r_runs,         \* how many times the renderer process was started
    result,         \* the CompletedProcess of subprocess.run, once it finished
    r_out,          \* what the call returns or raises
    \* embedded-path requests served by the threads of one worker process
    w_pc,           \* per thread: its position in execute_python_code
    w_req,          \* per thread: the request it serves (0: none)
    w_next,         \* the number of the next request to arrive
    figure,         \* pyplot's current figure: whether one is open, and whose drawing it holds
    w_img           \* per request: whether its image was saved, and whose drawing it shows

hVars == <<h_req, h_pc, h_calls, h_args, h_resp>>

pyVars == <<py_in, py_pc, save_repl, modified_code, csv_data_string, img_buffer, py_out>>

rVars == <<r_in, r_pc, temp_dir, r_command, r_runs, result, r_out>>

wVars == <<w_pc, w_req, w_next, figure, w_img>>

vars == <<hVars, pyVars, rVars, wVars>>

(***************************************************************************)
(* Optional arguments and tabular data.                                    *)
(***************************************************************************)
\* an optional string argument that was not given (None)
Absent == "<absent>"

\* truth value of an optional string argument
TruthyStr(v) == v # Absent /\ v # ""

\* csv_data: not given (None), or a sequence of rows; a row is an ordered
\* mapping, modelled as a sequence of <<key, value>> pairs
NoData == [given |-> FALSE, rows |-> <<>>]

Data(rows) == [given |-> TRUE, rows |-> rows]

\* truth value of csv_data: a non-empty row sequence
TruthyData(d) == d.given /\ d.rows # <<>>

(***************************************************************************)
(* execute_r_code: literals of the failure path, as character sequences.   *)
(***************************************************************************)
\* 'Execution halted', the generic halt banner of the renderer (line 272)
HALT_BANNER ==
    <<"E", "x", "e", "c", "u", "t", "i", "o", "n", " ", "h", "a", "l", "t",
      "e", "d">>

\* the error keyword 'Error' (line 272)
KW_Error ==
    <<"E", "r", "r", "o", "r">>

\* the error keyword 'error', searched in the lower-cased line (line 272)
KW_error ==
    <<"e", "r", "r", "o", "r">>

\* line 292
NO_PACKAGE ==
    <<"t", "h", "e", "r", "e", " ", "i", "s", " ", "n", "o", " ", "p", "a",
      "c", "k", "a", "g", "e", " ", "c", "a", "l", "l", "e", "d">>

\* line 292
GGPLOT2 ==
    <<"g", "g", "p", "l", "o", "t", "2">>

\* the truncation marker (line 285)
TRUNC_MARKER ==
    <<".", ".", ".">>

\* line 289
NO_IMAGE_NOTE ==
    <<" ", "(", "n", "o", " ", "o", "u", "t", "p", "u", "t", " ", "i", "m",
      "a", "g", "e", " ", "g", "e", "n", "e", "r", "a", "t", "e", "d", ")">>

\* line 293
GUIDANCE ==
    <<" ", "-", " ", "g", "g", "p", "l", "o", "t", "2", " ", "i", "s", "n",
      "'", "t", " ", "a", "v", "a", "i", "l", "a", "b", "l", "e", " ", "i",
      "n", " ", "t", "h", "e", " ", "r", "u", "n", "t", "i", "m", "e", ".",
      " ", "I", "f", " ", "r", "u", "n", "n", "i", "n", "g", " ", "l", "o",
      "c", "a", "l", "l", "y", ",", " ", "i", "n", "s", "t", "a", "l", "l",
      " ", "R", " ", "a", "n", "d", " ", "g", "g", "p", "l", "o", "t", "2",
      ".", " ", "I", "f", " ", "o", "n", " ", "H", "e", "r", "o", "k", "u",
      " ", "w", "i", "t", "h", " ", "D", "o", "c", "k", "e", "r", ",", " ",
      "e", "n", "s", "u", "r", "e", " ", "t", "h", "e", " ", "D", "o", "c",
      "k", "e", "r", " ", "i", "m", "a", "g", "e", " ", "i", "n", "s", "t",
      "a", "l", "l", "s", " ", "g", "g", "p", "l", "o", "t", "2", " ", "a",
      "n", "d", " ", "r", "e", "d", "e", "p", "l", "o", "y", ".">>

\* line 295
MSG_PREFIX ==
    <<"R", " ", "e", "x", "e", "c", "u", "t", "i", "o", "n", " ", "e", "r",
      "r", "o", "r", ":", " ">>

\* line 281
MSG_NO_STDERR ==
    <<"R", " ", "s", "c", "r", "i", "p", "t", " ", "e", "x", "e", "c", "u",
      "t", "i", "o", "n", " ", "f", "a", "i", "l", "e", "d">>

\* line 279
MSG_UNKNOWN ==
    <<"U", "n", "k", "n", "o", "w", "n", " ", "R", " ", "e", "r", "r", "o",
      "r">>

(***************************************************************************)
(* Diagnostic lines the renderer may write.                                *)
(***************************************************************************)
\* a line that starts with the halt banner and also holds a keyword
L_HaltError ==
    <<"E", "x", "e", "c", "u", "t", "i", "o", "n", " ", "h", "a", "l", "t",
      "e", "d", ":", " ", "e", "r", "r", "o", "r">>

\* an R error line
L_ErrorIn ==
    <<"E", "r", "r", "o", "r", " ", "i", "n", " ", "f", "(", "x", ")", " ",
      ":", " ", "b", "o", "o", "m">>

\* a line without any error keyword
L_Warning ==
    <<"W", "a", "r", "n", "i", "n", "g", " ", "m", "e", "s", "s", "a", "g",
      "e", ":">>

\* a keyword only after lower-casing
L_UpperOnly ==
    <<"F", "A", "T", "A", "L", " ", "E", "R", "R", "O", "R">>

\* the missing-library diagnostic, indented
L_NoPackage ==
    <<" ", " ", "E", "r", "r", "o", "r", " ", "i", "n", " ", "l", "i", "b",
      "r", "a", "r", "y", "(", "g", "g", "p", "l", "o", "t", "2", ")", " ",
      ":", " ", "t", "h", "e", "r", "e", " ", "i", "s", " ", "n", "o", " ",
      "p", "a", "c", "k", "a", "g", "e", " ", "c", "a", "l", "l", "e", "d",
      " ", "'", "g", "g", "p", "l", "o", "t", "2", "'">>

\* head of the long keyword line
L_LongHead ==
    <<"E", "r", "r", "o", "r", ":", " ">>

\* head of the long line without keyword
L_PlainHead ==
    <<"I", "n", " ", "a", "d", "d", "i", "t", "i", "o", "n", ":", " ">>

\* a LongLen-character line that starts with an error keyword
LongErrorLine == L_LongHead \o Pad("x", LongLen - Len(L_LongHead))

\* a PlainLen-character line without any error keyword
LongPlainLine == L_PlainHead \o Pad("y", PlainLen - Len(L_PlainHead))

\* a LongLen-character line that reports the missing library
LongLibraryLine == Strip(L_NoPackage) \o Pad("x", LongLen - Len(Strip(L_NoPackage)))

DiagnosticLines ==
    {<<>>, HALT_BANNER, L_HaltError, L_ErrorIn, L_Warning, L_UpperOnly, L_NoPackage,
     LongErrorLine, LongPlainLine, LongLibraryLine}

\* the text of a stream: every line followed by its newline
RECURSIVE StreamText(_)
StreamText(ls) == IF ls = <<>> THEN <<>> ELSE ls[1] \o <<"\n">> \o StreamText(Tail(ls))

\* the diagnostic streams (result.stderr) the model draws from
StderrStreams ==
    {StreamText(ls) : ls \in UNION {[1..n -> DiagnosticLines] : n \in 0..MaxLines}}

(***************************************************************************)
(* execute_r_code: the failure message (lines 264-297).                    *)
(***************************************************************************)
\* `returncode != 0 or not os.path.exists(output_plot_file)'
ShouldFail_BothNeeded(returncode, exists) == returncode # 0 /\ ~exists

ShouldFail(returncode, exists) == returncode # 0 \/ ~exists

\* the filter of the relevant_errors comprehension; Python reads
\* `a and b and c or d' as `(a and b and c) or d'
IsRelevant(line) ==
    \/ /\ Strip(line) # <<>>
       /\ ~StartsWith(line, HALT_BANNER)
       /\ Contains(line, KW_Error)
    \/ Contains(Lower(line), KW_error)

\* error_lines
ErrorLines(stderr) == IF stderr # <<>> THEN Split(stderr, "\n") ELSE <<>>

\* clean_error as selected from the stream, before the cap
SelectError(stderr) ==
    LET error_lines     == ErrorLines(stderr)
        relevant_errors == SelectSeq(error_lines, IsRelevant)
    IN  IF relevant_errors # <<>> THEN Strip(relevant_errors[1])
        ELSE IF stderr # <<>>
             THEN (IF error_lines # <<>>
                   THEN Take(Strip(error_lines[1]), FALLBACK_LIMIT)
                   ELSE MSG_UNKNOWN)
        ELSE MSG_NO_STDERR

\* `if len(clean_error) > 300: clean_error = clean_error[:300] + "..."'
CapError_NoCap(clean_error) == clean_error

CapError(clean_error) ==
    IF Len(clean_error) > MESSAGE_LIMIT
    THEN Take(clean_error, MESSAGE_LIMIT) \o TRUNC_MARKER
    ELSE clean_error

\* the note appended when the output file is missing
WithNote(clean_error, exists) ==
    IF ~exists THEN clean_error \o NO_IMAGE_NOTE ELSE clean_error

\* the guidance appended when ggplot2 is reported missing
WithGuidance(clean_error) ==
    IF Contains(Lower(clean_error), NO_PACKAGE) /\ Contains(Lower(clean_error), GGPLOT2)
    THEN clean_error \o GUIDANCE
    ELSE clean_error

\* error_msg, the text of the RuntimeError
ErrorMsg(stderr_raw, exists) ==
    LET stderr == Strip(stderr_raw)
    IN  MSG_PREFIX \o WithGuidance(WithNote(CapError(SelectError(stderr)), exists))

(***************************************************************************)
(* execute_r_code: the adapter as a sequence of steps.                     *)
(***************************************************************************)
NoResult == [done |-> FALSE, returncode |-> 0, stderr |-> <<>>, wrote_png |-> FALSE]

NoOutcome == [kind |-> "none", exc |-> "", msg |-> <<>>, clean |-> <<>>]

Raised(exc, msg, clean) == [kind |-> "raise", exc |-> exc, msg |-> msg, clean |-> clean]

\* leaving the `with tempfile.TemporaryDirectory()' block, by return or by exception
LeaveTempDir_Kept(dir) == dir

LeaveTempDir(dir) == [exists |-> FALSE, files |-> {}]

\* how long the renderer runs, in seconds
Durations == {1, R_TIMEOUT, R_TIMEOUT + 1}

\* lines 226-229: the directory is created
REnter ==
    /\ r_pc = "call"
    /\ temp_dir' = [exists |-> TRUE, files |-> {}]
    /\ r_pc' = "write_script"
    /\ UNCHANGED <<r_in, r_command, r_runs, result, r_out>>
    /\ UNCHANGED <<hVars, pyVars, wVars>>

\* lines 231-235: the script is written, the fixed arguments are set
RWriteScript ==
    /\ r_pc = "write_script"
    /\ temp_dir' = [temp_dir EXCEPT !.files = @ \cup {"user_script.R"}]
    /\ r_command' = <<"Rscript", "--vanilla", "run_r_script.r", "user_script.R", "chart.png">>
    /\ r_pc' = "write_data"
    /\ UNCHANGED <<r_in, r_runs, result, r_out>>
    /\ UNCHANGED <<hVars, pyVars, wVars>>

\* lines 231-232: open() or write() raises
RWriteScriptFails ==
    /\ r_pc = "write_script"
    /\ r_out' = Raised("OSError", <<>>, <<>>)
    /\ r_pc' = "exit"
    /\ UNCHANGED <<r_in, temp_dir, r_command, r_runs, result>>
    /\ UNCHANGED <<hVars, pyVars, wVars>>

\* lines 246-251: the optional positional arguments
StyleArgs(in) ==
    (IF TruthyStr(in.img_bg_choice) THEN <<in.img_bg_choice>> ELSE <<>>)
    \o (IF TruthyStr(in.chart_bg_choice) THEN <<in.chart_bg_choice>> ELSE <<>>)
    \o (IF in.show_grid_lines # Absent
        THEN <<IF in.show_grid_lines = "True" THEN "true" ELSE "false">>
        ELSE <<>>)

\* lines 237-251: the data file, when data was supplied, and the arguments
RWriteData ==
    /\ r_pc = "write_data"
    /\ IF TruthyData(r_in.csv_data)
       THEN /\ temp_dir' = [temp_dir EXCEPT !.files = @ \cup {"data.csv"}]
            /\ r_command' = r_command \o <<"data.csv">> \o StyleArgs(r_in)
       ELSE /\ temp_dir' = temp_dir
            /\ r_command' = r_command \o StyleArgs(r_in)
    /\ r_pc' = "run"
    /\ UNCHANGED <<r_in, r_runs, result, r_out>>
    /\ UNCHANGED <<hVars, pyVars, wVars>>

\* lines 240-244: writing the data file raises
RWriteDataFails ==
    /\ r_pc = "write_data"
    /\ TruthyData(r_in.csv_data)
    /\ r_out' = Raised("OSError", <<>>, <<>>)
    /\ r_pc' = "exit"
    /\ UNCHANGED <<r_in, temp_dir, r_command, r_runs, result>>
    /\ UNCHANGED <<hVars, pyVars, wVars>>

\* lines 254-261: the renderer runs to its end within the timeout
RRun ==
    /\ r_pc = "run"
    /\ \E d \in Durations, rc \in {0, 1}, err \in StderrStreams, png \in BOOLEAN :
          /\ d <= R_TIMEOUT
          /\ result' = [done |-> TRUE, returncode |-> rc, stderr |-> err, wrote_png |-> png]
          /\ temp_dir' = [temp_dir EXCEPT
                            !.files = IF png THEN @ \cup {"chart.png"} ELSE @]
    /\ r_runs' = r_runs + 1
    /\ r_pc' = "check"
    /\ UNCHANGED <<r_in, r_command, r_out>>
    /\ UNCHANGED <<hVars, pyVars, wVars>>

\* lines 254-261: the timeout expires; subprocess.run kills the process and raises
RRunTimeout ==
    /\ r_pc = "run"
    /\ \E d \in Durations, png \in BOOLEAN :
          /\ d > R_TIMEOUT
          /\ temp_dir' = [temp_dir EXCEPT
                            !.files = IF png THEN @ \cup {"chart.png"} ELSE @]
    /\ r_runs' = r_runs + 1
    /\ r_out' = Raised("TimeoutExpired", <<>>, <<>>)
    /\ r_pc' = "exit"
    /\ UNCHANGED <<r_in, r_command, result>>
    /\ UNCHANGED <<hVars, pyVars, wVars>>

\* lines 264-303: the failure branch raises, the success branch reads the image
RCheck ==
    /\ r_pc = "check"
    /\ LET exists == "chart.png" \in temp_dir.files
       IN  IF ShouldFail(result.returncode, exists)
           THEN r_out' = Raised("RuntimeError", ErrorMsg(result.stderr, exists),
                                SelectError(Strip(result.stderr)))
           ELSE IF exists
                THEN r_out' = [kind |-> "image", exc |-> "", msg |-> <<>>, clean |-> <<>>]
                ELSE r_out' = Raised("FileNotFoundError", <<>>, <<>>)
    /\ r_pc' = "exit"
    /\ UNCHANGED <<r_in, temp_dir, r_command, r_runs, result>>
    /\ UNCHANGED <<hVars, pyVars, wVars>>

\* line 226: the with block is left and the directory reclaimed
RExitWith ==
    /\ r_pc = "exit"
    /\ temp_dir' = LeaveTempDir(temp_dir)
    /\ r_pc' = IF r_out.kind = "raise" THEN "raised" ELSE "returned"
    /\ UNCHANGED <<r_in, r_command, r_runs, result, r_out>>
    /\ UNCHANGED <<hVars, pyVars, wVars>>

(***************************************************************************)
(* execute_python_code: style resolution (lines 73-104).                   *)
(* A background choice is a character sequence, or NoneChoice.             *)
(***************************************************************************)
\* the value None of an optional choice
NoneChoice == <<"None">>

\* what str() gives for the value None inside an f-string
ColorNone == "None"

\* the keys of the two lookup tables
CH_transparent ==
    <<"t", "r", "a", "n", "s", "p", "a", "r", "e", "n", "t">>

CH_white ==
    <<"w", "h", "i", "t", "e">>

CH_blue ==
    <<"b", "l", "u", "e">>

CH_default ==
    <<"d", "e", "f", "a", "u", "l", "t">>

CH_green ==
    <<"g", "r", "e", "e", "n">>

CH_yellow ==
    <<"y", "e", "l", "l", "o", "w">>

CH_orange ==
    <<"o", "r", "a", "n", "g", "e">>

CH_purple ==
    <<"p", "u", "r", "p", "l", "e">>

CH_teal ==
    <<"t", "e", "a", "l">>

\* `if not choice: choice = 'default'', then `choice.lower()'
NormalChoice(choice) ==
    Lower(IF choice = NoneChoice \/ choice = <<>> THEN CH_default ELSE choice)

\* map_image_bg (lines 73-83)
map_image_bg(choice) ==
    LET choice_l == NormalChoice(choice)
    IN  IF choice_l = CH_transparent THEN ColorNone
        ELSE IF choice_l = CH_white THEN "#f3f3f3"
        ELSE IF choice_l = CH_blue THEN "#0b1220"
        ELSE IF choice_l = CH_default THEN "#0a0a0a"
        ELSE "#0a0a0a"

\* map_chart_bg (lines 85-101)
map_chart_bg(choice) ==
    LET choice_l == NormalChoice(choice)
    IN  IF choice_l = CH_transparent THEN ColorNone
        ELSE IF choice_l = CH_white THEN "#ffffff"
        ELSE IF choice_l = CH_blue THEN "#8ac0db"
        ELSE IF choice_l = CH_green THEN "#8adba5"
        ELSE IF choice_l = CH_yellow THEN "#fee14e"
        ELSE IF choice_l = CH_orange THEN "#fd732d"
        ELSE IF choice_l = CH_purple THEN "#ce8adb"
        ELSE IF choice_l = CH_teal THEN "#76d3cf"
        ELSE IF choice_l = CH_default THEN "#111827"
        ELSE "#111827"

(***************************************************************************)
(* execute_python_code: the save sequence (lines 107-147), as lexemes.     *)
(***************************************************************************)
\* SHOW_SENTINEL = 'plt.show()' (line 149)
SHOW_SENTINEL ==
    <<"plt.show", "(", ")">>

\* the statement that makes the outer figure transparent (line 119)
SET_ALPHA ==
    <<"fig.patch.set_alpha", "(", "0.0", ")">>

\* the head of the save-to-sink call (lines 128, 145)
SAVEFIG_SINK ==
    <<"plt.savefig", "(", "img_buffer">>

\* line 129, line 146
PLT_CLOSE ==
    <<"plt.close", "(", ")">>

\* panel_injection of the transparent branch (lines 108-115)
TransparentPanel(panel_bg) ==
    <<"#", " ", "Apply", " ", "chart", " ", "panel", " ", "background", " ",
      "if", " ", "requested", " ", "and", " ", "not", " ", "transparent",
      "\n", "try:", "\n", " ", " ", " ", " ", "fig", " ", "=", " ", "plt.gcf",
      "(", ")", "\n", " ", " ", " ", " ", "for", " ", "ax", " ", "in", " ",
      "fig.get_axes", "(", ")", ":", "\n", " ", " ", " ", " ", " ", " ", " ",
      " ", "ax.set_facecolor", "(", "'", panel_bg, "'", ")", "\n", "except",
      " ", "Exception:", "\n", " ", " ", " ", " ", "pass", "\n">>

\* save_repl of the transparent branch up to the panel injection (lines 117-126)
TransparentHead ==
    <<"fig", " ", "=", " ", "plt.gcf", "(", ")", "\n", "#", " ", "Make", " ",
      "outer", " ", "figure", " ", "transparent", " ", "while", " ",
      "keeping", " ", "axes", " ", "opaque", "\n", "try:", "\n", " ", " ",
      " ", " ", "fig.patch.set_alpha", "(", "0.0", ")", "\n", "except", " ",
      "Exception:", "\n", " ", " ", " ", " ", "pass", "\n", "for", " ", "ax",
      " ", "in", " ", "fig.get_axes", "(", ")", ":", "\n", " ", " ", " ", " ",
      "try:", "\n", " ", " ", " ", " ", " ", " ", " ", " ", "fc", " ", "=",
      " ", "ax.get_facecolor", "(", ")", "\n", " ", " ", " ", " ", " ", " ",
      " ", " ", "if", " ", "isinstance", "(", "fc", ",", " ", "tuple", ")",
      " ", "and", " ", "len", "(", "fc", ")", " ", "==", " ", "4:", "\n", " ",
      " ", " ", " ", " ", " ", " ", " ", " ", " ", " ", " ",
      "ax.set_facecolor", "(", "(", "fc[0]", ",", " ", "fc[1]", ",", " ",
      "fc[2]", ",", " ", "1.0", ")", ")", "\n", " ", " ", " ", " ", "except",
      " ", "Exception:", "\n", " ", " ", " ", " ", " ", " ", " ", " ", "pass",
      "\n">>

\* the save call of the transparent branch (line 128)
TransparentSave ==
    <<"plt.savefig", "(", "img_buffer", ",", " ", "format=", "\"", "png",
      "\"", ",", " ", "bbox_inches=", "\"", "tight", "\"", ",", " ",
      "dpi=150", ",", " ", "facecolor=", "(", "0", ",", "0", ",", "0", ",",
      "0", ")", ",", " ", "edgecolor=", "\"", "none", "\"", ",", " ",
      "transparent=False", ")", "\n">>

\* panel_injection of the other branch (lines 133-140)
SolidPanel(panel_bg) ==
    <<"#", " ", "Apply", " ", "chart", " ", "panel", " ", "background", " ",
      "if", " ", "requested", "\n", "try:", "\n", " ", " ", " ", " ", "fig",
      " ", "=", " ", "plt.gcf", "(", ")", "\n", " ", " ", " ", " ", "for",
      " ", "ax", " ", "in", " ", "fig.get_axes", "(", ")", ":", "\n", " ",
      " ", " ", " ", " ", " ", " ", " ", "ax.set_facecolor", "(", "'",
      panel_bg, "'", ")", "\n", "except", " ", "Exception:", "\n", " ", " ",
      " ", " ", "pass", "\n">>

\* save_repl of the other branch up to the panel injection (lines 142-143)
SolidHead(figure_bg) ==
    <<"fig", " ", "=", " ", "plt.gcf", "(", ")", "\n", "try:", "\n", " ", " ",
      " ", " ", "fig.patch.set_facecolor", "(", "'", figure_bg, "'", ")",
      "\n", "except", " ", "Exception:", "\n", " ", " ", " ", " ", "pass",
      "\n">>

\* the save call of the other branch (line 145)
SolidSave ==
    <<"plt.savefig", "(", "img_buffer", ",", " ", "format=", "\"", "png",
      "\"", ",", " ", "bbox_inches=", "\"", "tight", "\"", ",", " ",
      "dpi=150", ",", " ", "facecolor=fig.get_facecolor", "(", ")", ",", " ",
      "edgecolor=", "\"", "none", "\"", ",", " ", "transparent=False", ")",
      "\n">>

\* the text appended before save_repl when no plt.show() is found (line 154)
AUTO_SAVE_HEAD ==
    <<"\n", "\n", "#", " ", "Auto-added", " ", "save", " ", "(", "no", " ",
      "plt.show", "(", ")", " ", "detected", ")", "\n">>

\* save_repl (lines 103-147)
BuildSaveRepl(img_bg_choice, chart_bg_choice) ==
    LET figure_bg == map_image_bg(img_bg_choice)
        panel_bg  == IF chart_bg_choice # NoneChoice
                     THEN map_chart_bg(chart_bg_choice) ELSE ColorNone
    IN  IF img_bg_choice = CH_transparent
        THEN TransparentHead
             \o (IF panel_bg = ColorNone THEN <<>> ELSE TransparentPanel(panel_bg))
             \o TransparentSave \o PLT_CLOSE
        ELSE SolidHead(figure_bg)
             \o (IF panel_bg = ColorNone THEN <<>> ELSE SolidPanel(panel_bg))
             \o SolidSave \o PLT_CLOSE

(***************************************************************************)
(* execute_python_code: the capture step (lines 149-154).                  *)
(***************************************************************************)
\* an absent code argument (None)
NoneCode == <<"<absent>">>

\* s.replace(old, new), from index i on: the occurrences are taken from the
\* left and do not overlap
RECURSIVE ReplaceFrom(_, _, _, _)
ReplaceFrom(s, old, new, i) ==
    IF \E j \in i..Len(s) : OccursAt(s, old, j)
    THEN LET j == CHOOSE j \in i..Len(s) :
                      OccursAt(s, old, j) /\ \A k \in i..(j - 1) : ~OccursAt(s, old, k)
         IN  SubSeq(s, i, j - 1) \o new \o ReplaceFrom(s, old, new, j + Len(old))
    ELSE SubSeq(s, i, Len(s))

\* a capture step that appends the save sequence whether or not the sentinel occurs
Capture_AlwaysAppend(code, repl) ==
    (IF code # NoneCode THEN code ELSE <<>>) \o AUTO_SAVE_HEAD \o repl \o <<"\n">>

\* modified_code after lines 149-154
Capture(code, repl) ==
    LET text == IF code # NoneCode THEN code ELSE <<>>
    IN  IF Contains(text, SHOW_SENTINEL)
        THEN ReplaceFrom(text, SHOW_SENTINEL, repl, 1)
        ELSE text \o AUTO_SAVE_HEAD \o repl \o <<"\n">>

(***************************************************************************)
(* execute_python_code: data injection (lines 156-179).                    *)
(***************************************************************************)
\* csv_replacement (line 166)
CSV_REPLACEMENT ==
    <<"pd.read_csv", "(", "io.StringIO", "(", "csv_data_string", ")", ")">>

\* the line 'import io' (lines 169-170)
IMPORT_IO ==
    <<"import", " ", "io">>

\* 'import ' (line 174)
IMPORT_PREFIX ==
    <<"import", " ">>

\* 'from ' (line 174)
FROM_PREFIX ==
    <<"from", " ">>

\* the head of the inserted literal (line 178)
CSV_LITERAL_HEAD ==
    <<"csv_data_string", " ", "=", " ", "\"", "\"", "\"">>

\* the end of the inserted literal (line 178)
TRIPLE_QUOTE ==
    <<"\"", "\"", "\"">>

IsQuote(t) == t \in {"'", "\""}

\* the first index from i on whose lexeme is not whitespace
SkipSpace(s, i) ==
    IF \E j \in i..Len(s) : ~IsSpace(s[j])
    THEN CHOOSE j \in i..Len(s) : ~IsSpace(s[j]) /\ \A k \in i..(j - 1) : IsSpace(s[k])
    ELSE Len(s) + 1

\* the first index from i on whose lexeme is in set; 0 when there is none
FindFirst(s, i, set) ==
    IF \E j \in i..Len(s) : s[j] \in set
    THEN CHOOSE j \in i..Len(s) : s[j] \in set /\ \A k \in i..(j - 1) : s[k] \notin set
    ELSE 0

\* a pattern without the optional group of extra arguments
ReadCsvMatchEnd_NoExtraArgs(s, i) ==
    IF i > Len(s) \/ s[i] # "pd.read_csv" THEN 0
    ELSE LET a == SkipSpace(s, i + 1)
         IN  IF a > Len(s) \/ s[a] # "(" THEN 0
             ELSE LET b == SkipSpace(s, a + 1)
                  IN  IF b > Len(s) \/ ~IsQuote(s[b]) THEN 0
                      ELSE LET q == FindFirst(s, b + 1, {"'", "\""})
                           IN  IF q = 0 THEN 0
                               ELSE LET c == SkipSpace(s, q + 1)
                                    IN  IF c <= Len(s) /\ s[c] = ")" THEN c ELSE 0

\* pd_read_csv_pattern (line 158) matched at index i: the index of the match's
\* last lexeme, 0 when the pattern does not match there.
\*   pd\.read_csv \s* \( \s* ['"] [^'"]* ['"] (?: \s* , \s* [^)]* )?? \s* \)
\* The quoted part ends at the first quote that follows; the lazy group is tried
\* only when no `)' follows the quoted part, and then the match ends at the first `)'.
ReadCsvMatchEnd(s, i) ==
    IF i > Len(s) \/ s[i] # "pd.read_csv" THEN 0
    ELSE LET a == SkipSpace(s, i + 1)
         IN  IF a > Len(s) \/ s[a] # "(" THEN 0
             ELSE LET b == SkipSpace(s, a + 1)
                  IN  IF b > Len(s) \/ ~IsQuote(s[b]) THEN 0
                      ELSE LET q == FindFirst(s, b + 1, {"'", "\""})
                           IN  IF q = 0 THEN 0
                               ELSE LET c == SkipSpace(s, q + 1)
                                    IN  IF c > Len(s) THEN 0
                                        ELSE IF s[c] = ")" THEN c
                                        ELSE IF s[c] = "," THEN FindFirst(s, c + 1, {")"})
                                        ELSE 0

\* re.sub(pd_read_csv_pattern, csv_replacement, s), from index i on (line 167)
\* the matches are taken from the left and do not overlap
RECURSIVE ReSubFrom(_, _)
ReSubFrom(s, i) ==
    IF \E j \in i..Len(s) : ReadCsvMatchEnd(s, j) # 0
    THEN LET j == CHOOSE j \in i..Len(s) :
                      /\ ReadCsvMatchEnd(s, j) # 0
                      /\ \A k \in i..(j - 1) : ReadCsvMatchEnd(s, k) = 0
         IN  SubSeq(s, i, j - 1) \o CSV_REPLACEMENT
             \o ReSubFrom(s, ReadCsvMatchEnd(s, j) + 1)
    ELSE SubSeq(s, i, Len(s))

\* the keys of a row, in order
Keys(row) == [i \in 1..Len(row) |-> row[i][1]]

\* row.get(key, ''), as text
Field(row, key) ==
    IF \E i \in 1..Len(row) : row[i][1] = key
    THEN <<row[CHOOSE i \in 1..Len(row) : row[i][1] = key][2]>>
    ELSE <<>>

\* one record as csv.writer writes it: fields joined by commas, ended by CRLF
CsvLine(fields) == Join(fields, ",") \o <<"\r", "\n">>

\* the records after the header (writer.writerows)
RECURSIVE CsvRows(_, _)
CsvRows(rows, fieldnames) ==
    IF rows = <<>> THEN <<>>
    ELSE CsvLine([k \in 1..Len(fieldnames) |-> Field(rows[1], fieldnames[k])])
         \o CsvRows(Tail(rows), fieldnames)

\* csv_data_string (lines 160-165)
CsvText(rows) ==
    IF Len(rows) > 0
    THEN LET fieldnames == Keys(rows[1])
         IN  CsvLine([k \in 1..Len(fieldnames) |-> <<fieldnames[k]>>])
             \o CsvRows(rows, fieldnames)
    ELSE <<>>

\* `line.strip() != 'import io'' (line 169)
NotImportIo(line) == Strip(line) # IMPORT_IO

\* the loop of lines 171-177 from line i (1-based) on; idx is insert_index so far
RECURSIVE ScanImports(_, _, _)
ScanImports(code_lines, i, idx) ==
    IF i > Len(code_lines) THEN idx
    ELSE LET s == Strip(code_lines[i])
         IN  IF StartsWith(s, IMPORT_PREFIX) \/ StartsWith(s, FROM_PREFIX)
             THEN ScanImports(code_lines, i + 1, i)
             ELSE IF s # <<>> /\ ~StartsWith(s, <<"#">>) THEN idx
             ELSE ScanImports(code_lines, i + 1, idx)

\* modified_code after lines 167-179
InjectData(text, csv_text) ==
    LET subbed       == ReSubFrom(text, 1)
        code_lines   == <<IMPORT_IO>> \o SelectSeq(Split(subbed, "\n"), NotImportIo)
        insert_index == ScanImports(code_lines, 1, 0)
        literal      == CSV_LITERAL_HEAD \o csv_text \o TRIPLE_QUOTE
    IN  Join(SubSeq(code_lines, 1, insert_index) \o <<literal>>
             \o SubSeq(code_lines, insert_index + 1, Len(code_lines)), "\n")

(***************************************************************************)
(* execute_python_code: the adapter as a sequence of steps.                *)
(***************************************************************************)
PyNoOutcome == [kind |-> "none", exc |-> ""]

\* lines 103-147: the styles are resolved and save_repl is built
PyStyle ==
    /\ py_pc = "call"
    /\ save_repl' = BuildSaveRepl(py_in.img_bg_choice, py_in.chart_bg_choice)
    /\ py_pc' = "capture"
    /\ UNCHANGED <<py_in, modified_code, csv_data_string, img_buffer, py_out>>
    /\ UNCHANGED <<hVars, rVars, wVars>>

\* lines 149-154: the display call is replaced, or the save sequence appended
PyCapture ==
    /\ py_pc = "capture"
    /\ modified_code' = Capture(py_in.code, save_repl)
    /\ py_pc' = "inject"
    /\ UNCHANGED <<py_in, save_repl, csv_data_string, img_buffer, py_out>>
    /\ UNCHANGED <<hVars, rVars, wVars>>

\* lines 156-179: `if csv_data:' and the data injection under it
PyInject ==
    /\ py_pc = "inject"
    /\ IF TruthyData(py_in.csv_data)
       THEN /\ csv_data_string' = CsvText(py_in.csv_data.rows)
            /\ modified_code' = InjectData(modified_code, csv_data_string')
       ELSE UNCHANGED <<csv_data_string, modified_code>>
    /\ py_pc' = "exec"
    /\ UNCHANGED <<py_in, save_repl, img_buffer, py_out>>
    /\ UNCHANGED <<hVars, rVars, wVars>>

\* lines 181-193: the program runs to its end; it wrote the image to the sink
\* (which takes the save call to be in the program) or wrote nothing
PyExec ==
    /\ py_pc = "exec"
    /\ \E wrote \in BOOLEAN :
          /\ wrote => Contains(modified_code, SAVEFIG_SINK)
          /\ img_buffer' = IF wrote THEN "png" ELSE "empty"
    /\ py_pc' = "executed"
    /\ UNCHANGED <<py_in, save_repl, modified_code, csv_data_string, py_out>>
    /\ UNCHANGED <<hVars, rVars, wVars>>

\* lines 192, 204-206: the program raises; the exception is logged and re-raised
PyExecRaises ==
    /\ py_pc = "exec"
    /\ py_out' = [kind |-> "raise", exc |-> "Exception"]
    /\ py_pc' = "raised"
    /\ UNCHANGED <<py_in, save_repl, modified_code, csv_data_string, img_buffer>>
    /\ UNCHANGED <<hVars, rVars, wVars>>

\* lines 195-203: an empty sink gets the 'No plot generated' image; the sink is returned
PyReturn ==
    /\ py_pc = "executed"
    /\ img_buffer' = IF img_buffer = "empty" THEN "fallback" ELSE img_buffer
    /\ py_out' = [kind |-> "image", exc |-> ""]
    /\ py_pc' = "returned"
    /\ UNCHANGED <<py_in, save_repl, modified_code, csv_data_string>>
    /\ UNCHANGED <<hVars, rVars, wVars>>

(***************************************************************************)
(* generate_chart (lines 307-330).                                         *)
(***************************************************************************)
\* a dispatch that compares the tag without regard to case
AdapterFor_AnyCase(language) ==
    IF language \in {"python", "Python"} THEN "python"
    ELSE IF language \in {"r", "R"} THEN "r"
    ELSE "none"

\* the branch taken by lines 320-325
AdapterFor(language) ==
    IF language = "python" THEN "python"
    ELSE IF language = "r" THEN "r"
    ELSE "none"

\* `a or b' on optional strings
OrElse(a, b) == IF TruthyStr(a) THEN a ELSE b

NoResponse == [status |-> 0, error |-> "", mimetype |-> ""]

\* lines 310-325: the fields are read and the request dispatched by its tag
HDispatch ==
    /\ h_pc = "received"
    /\ LET language == h_req.language
           adapter  == AdapterFor(language)
       IN  IF adapter = "none"
           THEN /\ h_resp' = [status |-> 400, error |-> "Invalid language specified",
                              mimetype |-> "application/json"]
                /\ h_pc' = "done"
                /\ UNCHANGED <<h_calls, h_args>>
           ELSE /\ h_calls' = [h_calls EXCEPT ![adapter] = @ + 1]
                /\ h_args' = [img_bg_choice   |-> OrElse(h_req.imgBgChoice, h_req.bgChoice),
                              chart_bg_choice |-> h_req.chartBgChoice]
                /\ h_pc' = "in_adapter"
                /\ UNCHANGED h_resp
    /\ UNCHANGED h_req
    /\ UNCHANGED <<pyVars, rVars, wVars>>

\* line 327: the adapter returned its image, which is sent
HAdapterReturns ==
    /\ h_pc = "in_adapter"
    /\ h_resp' = [status |-> 200, error |-> "", mimetype |-> "image/png"]
    /\ h_pc' = "done"
    /\ UNCHANGED <<h_req, h_calls, h_args>>
    /\ UNCHANGED <<pyVars, rVars, wVars>>

\* lines 328-330: the adapter raised; the message alone is sent
HAdapterRaises ==
    /\ h_pc = "in_adapter"
    /\ \E message \in {"name 'pd' is not defined", "R execution error: boom"} :
          h_resp' = [status |-> 500, error |-> message, mimetype |-> "application/json"]
    /\ h_pc' = "done"
    /\ UNCHANGED <<h_req, h_calls, h_args>>
    /\ UNCHANGED <<pyVars, rVars, wVars>>

(***************************************************************************)
(* Embedded-path requests in the threads of one worker process.  pyplot    *)
(* keeps one current figure per process; lines 181-192 act on it: plt.clf() *)
(* before exec, then the program's own drawing, then the plt.savefig and   *)
(* plt.close of the save sequence.                                         *)
(***************************************************************************)
Threads == {"t1", "t2"}

Requests == 1..MaxRequests

NoImage == [saved |-> FALSE, shows |-> {}]

\* a thread takes the next request (lines 61-179: the rewrite touches no shared state)
WStart(t) ==
    /\ w_pc[t] = "idle"
    /\ w_next <= MaxRequests
    /\ w_req' = [w_req EXCEPT ![t] = w_next]
    /\ w_next' = w_next + 1
    /\ w_pc' = [w_pc EXCEPT ![t] = "clf"]
    /\ UNCHANGED <<figure, w_img>>
    /\ UNCHANGED <<hVars, pyVars, rVars>>

\* line 181: plt.clf() clears the current figure (and opens one if there is none)
WClf(t) ==
    /\ w_pc[t] = "clf"
    /\ figure' = [open |-> TRUE, drawn |-> {}]
    /\ w_pc' = [w_pc EXCEPT ![t] = "draw"]
    /\ UNCHANGED <<w_req, w_next, w_img>>
    /\ UNCHANGED <<hVars, pyVars, rVars>>

\* line 192: the program draws on the current figure
WDraw(t) ==
    /\ w_pc[t] = "draw"
    /\ figure' = [open |-> TRUE, drawn |-> figure.drawn \cup {w_req[t]}]
    /\ w_pc' = [w_pc EXCEPT ![t] = "save"]
    /\ UNCHANGED <<w_req, w_next, w_img>>
    /\ UNCHANGED <<hVars, pyVars, rVars>>

\* line 192: the program raises before its save sequence; the figure stays as it is
WFail(t) ==
    /\ w_pc[t] \in {"draw", "save"}
    /\ w_pc' = [w_pc EXCEPT ![t] = "idle"]
    /\ w_req' = [w_req EXCEPT ![t] = 0]
    /\ UNCHANGED <<w_next, figure, w_img>>
    /\ UNCHANGED <<hVars, pyVars, rVars>>

\* lines 128, 145: plt.savefig writes the current figure to the request's sink
WSave(t) ==
    /\ w_pc[t] = "save"
    /\ w_img' = [w_img EXCEPT ![w_req[t]] = [saved |-> TRUE, shows |-> figure.drawn]]
    /\ figure' = [figure EXCEPT !.open = TRUE]
    /\ w_pc' = [w_pc EXCEPT ![t] = "close"]
    /\ UNCHANGED <<w_req, w_next>>
    /\ UNCHANGED <<hVars, pyVars, rVars>>

\* lines 129, 146: plt.close() closes the current figure
WClose(t) ==
    /\ w_pc[t] = "close"
    /\ figure' = [open |-> FALSE, drawn |-> {}]
    /\ w_pc' = [w_pc EXCEPT ![t] = "return"]
    /\ UNCHANGED <<w_req, w_next, w_img>>
    /\ UNCHANGED <<hVars, pyVars, rVars>>

\* lines 202-203: the sink is returned
WReturn(t) ==
    /\ w_pc[t] = "return"
    /\ w_pc' = [w_pc EXCEPT ![t] = "idle"]
    /\ w_req' = [w_req EXCEPT ![t] = 0]
    /\ UNCHANGED <<w_next, figure, w_img>>
    /\ UNCHANGED <<hVars, pyVars, rVars>>

(***************************************************************************)
(* Inputs the specifications draw from.                                    *)
(***************************************************************************)
\* the display call on a line of its own
SegShow == SHOW_SENTINEL \o <<"\n">>

\* an unfinished display call: not the sentinel
SegShowPartial ==
    <<"plt.show", "(">>

\* a statement
SegStmt ==
    <<"x", " ", "=", " ", "1", "\n">>

\* a comment line
SegComment ==
    <<"#", " ", "load", "\n">>

\* an import of io
SegImportIo ==
    <<"import", " ", "io", "\n">>

\* another import
SegImportPd ==
    <<"import", " ", "pandas", " ", "as", " ", "pd", "\n">>

\* a data-loading call without extra arguments
SegCallPlain ==
    <<"df", " ", "=", " ", "pd.read_csv", "(", "'", "data.csv", "'", ")", "\n">>

\* a data-loading call with a keyword argument
SegCallKw ==
    <<"df", " ", "=", " ", "pd.read_csv", " ", "(", "\"", "data.csv", "\"",
      ",", " ", "sep=", "'", ";", "'", ")", "\n">>

\* a data-loading call whose keyword argument holds parentheses
SegCallKwParen ==
    <<"df", " ", "=", " ", "pd.read_csv", "(", "'", "data.csv", "'", ",", " ",
      "usecols=", "(", "0", ",", " ", "1", ")", ")", "\n">>

\* a data-loading call already in the in-memory form
SegCallMem ==
    <<"df", " ", "=", " ", "pd.read_csv", "(", "io.StringIO", "(",
      "csv_data_string", ")", ")", "\n">>

Segments ==
    {SegShow, SegShowPartial, SegStmt, SegComment, SegImportIo, SegImportPd,
     SegCallPlain, SegCallKw, SegCallKwParen, SegCallMem}

\* the concatenation of a sequence of segments
RECURSIVE Concat(_)
Concat(segs) == IF segs = <<>> THEN <<>> ELSE segs[1] \o Concat(Tail(segs))

\* the snippets: absent, or up to MaxSegs segments
Codes ==
    {NoneCode} \cup
    {Concat(segs) : segs \in UNION {[1..n -> Segments] : n \in 0..MaxSegs}}

\* the values of column a, row by row
CellValues == <<"1", "2", "3", "4", "5">>

\* row i of the tabular data: every row has the keys a and b
RowAt(i) == << <<"a", CellValues[((i - 1) % Len(CellValues)) + 1]>>, <<"b", "x">> >>

\* csv_data: absent, or 0..MaxRows rows
DataInputs == {NoData} \cup {Data([i \in 1..n |-> RowAt(i)]) : n \in 0..MaxRows}

\* background choices in other spellings, and one that is no tag
IN_Transparent ==
    <<"T", "r", "a", "n", "s", "p", "a", "r", "e", "n", "t">>

IN_TRANSPARENT ==
    <<"T", "R", "A", "N", "S", "P", "A", "R", "E", "N", "T">>

IN_WHITE ==
    <<"W", "H", "I", "T", "E">>

IN_Blue ==
    <<"B", "l", "u", "e">>

IN_Dark ==
    <<"D", "a", "r", "k">>

IN_Teal ==
    <<"T", "e", "a", "l">>

ImgChoices ==
    {NoneChoice, <<>>, CH_transparent, IN_Transparent, IN_TRANSPARENT, CH_white,
     IN_WHITE, CH_blue, IN_Blue, CH_default, IN_Dark}

ChartChoices ==
    {NoneChoice, <<>>, CH_transparent, IN_Transparent, CH_white, IN_WHITE,
     CH_teal, IN_Teal, CH_default, IN_Dark}

(***************************************************************************)
(* Initial values of the parts a specification leaves alone.               *)
(***************************************************************************)
HIdle ==
    /\ h_req = [language |-> Absent, imgBgChoice |-> Absent, bgChoice |-> Absent,
                chartBgChoice |-> Absent]
    /\ h_pc = "idle"
    /\ h_calls = [python |-> 0, r |-> 0]
    /\ h_args = [img_bg_choice |-> Absent, chart_bg_choice |-> Absent]
    /\ h_resp = NoResponse

PyIdle ==
    /\ py_in = [code |-> NoneCode, csv_data |-> NoData, img_bg_choice |-> NoneChoice,
                chart_bg_choice |-> NoneChoice]
    /\ py_pc = "idle"
    /\ save_repl = <<>>
    /\ modified_code = <<>>
    /\ csv_data_string = <<>>
    /\ img_buffer = "empty"
    /\ py_out = PyNoOutcome

RIdle ==
    /\ r_in = [csv_data |-> NoData, img_bg_choice |-> Absent, chart_bg_choice |-> Absent,
               show_grid_lines |-> Absent]
    /\ r_pc = "idle"
    /\ temp_dir = [exists |-> FALSE, files |-> {}]
    /\ r_command = <<>>
    /\ r_runs = 0
    /\ result = NoResult
    /\ r_out = NoOutcome

WIdle ==
    /\ w_pc = [t \in Threads |-> "idle"]
    /\ w_req = [t \in Threads |-> 0]
    /\ w_next = MaxRequests + 1
    /\ figure = [open |-> FALSE, drawn |-> {}]
    /\ w_img = [q \in Requests |-> NoImage]

(***************************************************************************)
(* Spec: the request handler.                                              *)
(***************************************************************************)
Languages == {Absent, "", "python", "r", "Python", "R", "javascript"}

Init ==
    /\ h_req \in [language : Languages,
                  imgBgChoice : {Absent, "", "white"},
                  bgChoice : {Absent, "blue"},
                  chartBgChoice : {Absent, "teal"}]
    /\ h_pc = "received"
    /\ h_calls = [python |-> 0, r |-> 0]
    /\ h_args = [img_bg_choice |-> Absent, chart_bg_choice |-> Absent]
    /\ h_resp = NoResponse
    /\ PyIdle
    /\ RIdle
    /\ WIdle

Next ==
    \/ HDispatch
    \/ HAdapterReturns
    \/ HAdapterRaises

Spec == Init /\ [][Next]_vars

(***************************************************************************)
(* SpecPy, SpecStyle: the embedded path; the first draws the snippets and  *)
(* the data, the second the background choices.                            *)
(***************************************************************************)
PyStart ==
    /\ py_pc = "call"
    /\ save_repl = <<>>
    /\ modified_code = <<>>
    /\ csv_data_string = <<>>
    /\ img_buffer = "empty"
    /\ py_out = PyNoOutcome
    /\ HIdle
    /\ RIdle
    /\ WIdle

InitPy ==
    /\ py_in \in [code : Codes, csv_data : DataInputs,
                  img_bg_choice : {NoneChoice}, chart_bg_choice : {NoneChoice}]
                 \cup
                 [code : Codes, csv_data : DataInputs,
                  img_bg_choice : {CH_transparent}, chart_bg_choice : {CH_white}]
    /\ PyStart

InitStyle ==
    /\ py_in \in [code : {NoneCode, SegShow}, csv_data : {NoData, Data(<<RowAt(1)>>)},
                  img_bg_choice : ImgChoices, chart_bg_choice : ChartChoices]
    /\ PyStart

NextPy ==
    \/ PyStyle
    \/ PyCapture
    \/ PyInject
    \/ PyExec
    \/ PyExecRaises
    \/ PyReturn

SpecPy == InitPy /\ [][NextPy]_vars

SpecStyle == InitStyle /\ [][NextPy]_vars

(***************************************************************************)
(* SpecR: the external-process path.                                       *)
(***************************************************************************)
RInputs ==
    [csv_data : {NoData, Data(<<>>), Data(<<RowAt(1)>>)},
     img_bg_choice : {Absent}, chart_bg_choice : {Absent}, show_grid_lines : {Absent}]
    \cup
    [csv_data : {NoData, Data(<<>>), Data(<<RowAt(1)>>)},
     img_bg_choice : {"transparent"}, chart_bg_choice : {""}, show_grid_lines : {"True"}]
    \cup
    [csv_data : {NoData, Data(<<>>), Data(<<RowAt(1)>>)},
     img_bg_choice : {""}, chart_bg_choice : {"white"}, show_grid_lines : {"False"}]

InitR ==
    /\ r_in \in RInputs
    /\ r_pc = "call"
    /\ temp_dir = [exists |-> FALSE, files |-> {}]
    /\ r_command = <<>>
    /\ r_runs = 0
    /\ result = NoResult
    /\ r_out = NoOutcome
    /\ HIdle
    /\ PyIdle
    /\ WIdle

NextR ==
    \/ REnter
    \/ RWriteScript
    \/ RWriteScriptFails
    \/ RWriteData
    \/ RWriteDataFails
    \/ RRun
    \/ RRunTimeout
    \/ RCheck
    \/ RExitWith

SpecR == InitR /\ [][NextR]_vars

(***************************************************************************)
(* SpecWorker: embedded-path requests in the threads of one worker.        *)
(***************************************************************************)
InitWorker ==
    /\ w_pc = [t \in Threads |-> "idle"]
    /\ w_req = [t \in Threads |-> 0]
    /\ w_next = 1
    /\ figure \in {[open |-> FALSE, drawn |-> {}], [open |-> TRUE, drawn |-> {}]}
    /\ w_img = [q \in Requests |-> NoImage]
    /\ HIdle
    /\ PyIdle
    /\ RIdle

NextWorker ==
    \E t \in Threads :
        \/ WStart(t)
        \/ WClf(t)
        \/ WDraw(t)
        \/ WFail(t)
        \/ WSave(t)
        \/ WClose(t)
        \/ WReturn(t)

SpecWorker == InitWorker /\ [][NextWorker]_vars

(***************************************************************************)
(* The claims.                                                             *)
(***************************************************************************)

\* C1: generate_chart answers a request whose language tag is neither 'python'
\* nor 'r' (an absent tag included) with status 400 and the error 'Invalid
\* language specified' and invokes neither adapter; for the tag 'python' or 'r'
\* it invokes exactly the matching adapter, exactly once.
C1_DispatchByLanguage ==
    /\ h_req.language \notin {"python", "r"} =>
          /\ h_calls = [python |-> 0, r |-> 0]
          /\ h_pc # "in_adapter"
          /\ h_pc = "done" =>
                h_resp.status = 400 /\ h_resp.error = "Invalid language specified"
    /\ h_req.language = "python" /\ h_pc \in {"in_adapter", "done"} =>
          h_calls = [python |-> 1, r |-> 0]
    /\ h_req.language = "r" /\ h_pc \in {"in_adapter", "done"} =>
          h_calls = [python |-> 0, r |-> 1]

\* a request tagged 'Python' was answered
C1_Witness ==
    /\ h_pc = "done"
    /\ h_req.language = "Python"
    /\ h_resp.status = 400

RFinished == r_pc \in {"returned", "raised"}

\* C2: once the renderer has finished, execute_r_code returns the image if and
\* only if the exit code is zero and the output file exists; in the three other
\* cases it raises its failure, and whenever the file is missing the message
\* contains '(no output image generated)'.
C2_SuccessNeedsExitZeroAndFile ==
    (RFinished /\ result.done) =>
        /\ (r_out.kind = "image") <=> (result.returncode = 0 /\ result.wrote_png)
        /\ r_out.kind # "image" => r_out.kind = "raise" /\ r_out.exc = "RuntimeError"
        /\ ~result.wrote_png => Contains(r_out.msg, NO_IMAGE_NOTE)

\* the renderer exited with code zero and left no output file
C2_Witness ==
    /\ r_pc = "raised"
    /\ result.done
    /\ result.returncode = 0
    /\ ~result.wrote_png
    /\ Contains(r_out.msg, NO_IMAGE_NOTE)

\* the lexeme sequence of the snippet, empty when the code is absent
SubmittedCode == IF py_in.code = NoneCode THEN <<>> ELSE py_in.code

\* the places of 'plt.show()' in the snippet
ShowPlaces == {i \in 1..Len(SubmittedCode) : OccursAt(SubmittedCode, SHOW_SENTINEL, i)}

\* the places of the save sequence in the program after the snippet's own text
AppendedSaves ==
    {i \in (Len(SubmittedCode) + 1)..Len(modified_code) : OccursAt(modified_code, save_repl, i)}

\* C3: with exactly one 'plt.show()' in the snippet, the program after the
\* capture step is the snippet with that occurrence replaced by one copy of the
\* save sequence, and no 'plt.show()' call of the snippet remains; with none, the
\* snippet's text is unchanged and the save sequence is appended once, at the end.
\* Every rewritten program contains the save sequence.
C3_CaptureStep ==
    /\ (py_pc = "inject" /\ Cardinality(ShowPlaces) = 1) =>
          LET i == CHOOSE i \in ShowPlaces : TRUE
          IN  /\ modified_code =
                    SubSeq(SubmittedCode, 1, i - 1) \o save_repl
                    \o SubSeq(SubmittedCode, i + Len(SHOW_SENTINEL), Len(SubmittedCode))
              /\ ~Contains(modified_code, SHOW_SENTINEL)
    /\ (py_pc = "inject" /\ ShowPlaces = {}) =>
          /\ Take(modified_code, Len(SubmittedCode)) = SubmittedCode
          /\ Cardinality(AppendedSaves) = 1
          /\ OccursAt(modified_code, save_repl \o <<"\n">>,
                      Len(modified_code) - Len(save_repl))
    /\ py_pc \in {"inject", "exec", "executed", "raised", "returned"} =>
          Contains(modified_code, save_repl)

\* a snippet with one display call after other text went through the capture step
C3_Witness ==
    /\ py_pc = "inject"
    /\ ShowPlaces = {Len(SegStmt) + 1}
    /\ Contains(modified_code, save_repl)

PyInjected == py_pc \in {"exec", "executed", "raised", "returned"}

\* the number of data-loading calls in a text
ReadCsvCount(text) == Cardinality({i \in 1..Len(text) : text[i] = "pd.read_csv"})

\* every data-loading call of the program is in the in-memory form
OnlyInMemoryCalls ==
    \A i \in 1..Len(modified_code) :
        modified_code[i] = "pd.read_csv" => OccursAt(modified_code, CSV_REPLACEMENT, i)

\* C4: for N > 0 rows with the same keys the CSV text has N+1 lines, the header
\* first, and after the rewrite every data-loading call of the program, written
\* with or without extra arguments, is pd.read_csv(io.StringIO(csv_data_string));
\* calls already in that form stay as they are.
C4_DataInjection ==
    (PyInjected /\ Len(py_in.csv_data.rows) > 0) =>
        /\ Cardinality({i \in 1..Len(csv_data_string) : csv_data_string[i] = "\n"})
              = Len(py_in.csv_data.rows) + 1
        /\ csv_data_string[Len(csv_data_string)] = "\n"
        /\ StartsWith(csv_data_string, <<"a", ",", "b", "\r", "\n">>)
        /\ OnlyInMemoryCalls
        /\ ReadCsvCount(modified_code) = ReadCsvCount(SubmittedCode)

\* two rows were injected into a snippet with a call that carries a keyword
\* argument and a call already in the in-memory form
C4_Witness ==
    /\ py_pc = "exec"
    /\ Len(py_in.csv_data.rows) = 2
    /\ py_in.code = SegCallKw \o SegCallMem
    /\ ReadCsvCount(modified_code) = 2

\* a choice in lower case; None stays None
LowerChoice(choice) == IF choice = NoneChoice THEN choice ELSE Lower(choice)

\* C5: style resolution is total and case-insensitive: the styling injected for
\* a case variant of a tag is that of the lower-case tag, any case variant of
\* 'transparent' as image background gets the transparent-figure treatment, and
\* an unrecognized or absent image background gets the default colour.
C5_StyleIgnoresCase ==
    py_pc \in {"capture", "inject", "exec", "executed", "raised", "returned"} =>
        /\ save_repl = BuildSaveRepl(LowerChoice(py_in.img_bg_choice),
                                     LowerChoice(py_in.chart_bg_choice))
        /\ LowerChoice(py_in.img_bg_choice) = CH_transparent =>
              Contains(save_repl, SET_ALPHA)
        /\ py_in.img_bg_choice \in {NoneChoice, <<>>, IN_Dark} =>
              Contains(save_repl, <<"fig.patch.set_facecolor", "(", "'", "#0a0a0a", "'", ")">>)

\* the line holds an error keyword
HasKeyword(line) == Contains(line, KW_Error) \/ Contains(Lower(line), KW_error)

\* the line holds an error keyword and is not the halt banner
KeywordNotBanner(line) == HasKeyword(line) /\ ~StartsWith(line, HALT_BANNER)

NotBlank(line) == Strip(line) # <<>>

\* C6: in the failure path the message is the first diagnostic line that holds
\* an error keyword and is not the 'Execution halted' banner, whenever there is
\* such a line (so a banner line before it is not chosen as the keyword line); if
\* no line holds an error keyword it is the first non-empty line cut to 200
\* characters.
C6_MessageSelection ==
    (r_pc = "raised" /\ r_out.exc = "RuntimeError") =>
        LET lines    == Split(result.stderr, "\n")
            keyword  == SelectSeq(lines, KeywordNotBanner)
            nonBlank == SelectSeq(lines, NotBlank)
        IN  /\ keyword # <<>> => r_out.clean = Strip(keyword[1])
            /\ ((\A i \in 1..Len(lines) : ~HasKeyword(lines[i])) /\ nonBlank # <<>>) =>
                  r_out.clean = Take(Strip(nonBlank[1]), FALLBACK_LIMIT)

\* the selected diagnostic text is longer than the cap
LongSelection ==
    /\ r_pc = "raised"
    /\ r_out.exc = "RuntimeError"
    /\ Len(r_out.clean) > MESSAGE_LIMIT

\* C7, as the claim states it: given a 500-character matching error line, the
\* final message is its first 300 characters followed by the trailing marker, in
\* every combination of the other failure conditions.
C7_CappedFinalMessage ==
    LongSelection =>
        r_out.msg = MSG_PREFIX \o SubSeq(r_out.clean, 1, MESSAGE_LIMIT) \o TRUNC_MARKER

\* C7, amended: the cap applies to the selected diagnostic text before the
\* notes are appended: the final message is 'R execution error: ', the first
\* 300 characters of the selected line, '...', then ' (no output image generated)'
\* if the output file is missing, then the ggplot2 guidance if the text so far
\* names the missing library.
C7_CapBeforeNotes ==
    LongSelection =>
        LET capped == SubSeq(r_out.clean, 1, MESSAGE_LIMIT) \o TRUNC_MARKER
            noted  == IF result.wrote_png THEN capped ELSE capped \o NO_IMAGE_NOTE
            guided == IF Contains(Lower(noted), NO_PACKAGE) /\ Contains(Lower(noted), GGPLOT2)
                      THEN noted \o GUIDANCE ELSE noted
        IN  r_out.msg = MSG_PREFIX \o guided

\* a 500-character line naming the missing library was selected, with the
\* output file missing
C7_Witness ==
    /\ LongSelection
    /\ Len(r_out.clean) = LongLen
    /\ ~result.wrote_png
    /\ Contains(r_out.msg, TRUNC_MARKER \o NO_IMAGE_NOTE \o GUIDANCE)

\* C8: whichever way an execution that created its working directory ends, the
\* directory is gone when the adapter returns or raises, the renderer was
\* started at most once, and a timeout ends the call with an exception.
C8_DirectoryReclaimed ==
    /\ r_runs <= 1
    /\ RFinished => ~temp_dir.exists /\ temp_dir.files = {}
    /\ r_out.exc = "TimeoutExpired" => r_out.kind = "raise" /\ r_pc \in {"exit", "raised"}
    /\ r_pc = "returned" => r_out.kind = "image" /\ r_runs = 1

\* the renderer timed out and the adapter has raised
C8_Witness ==
    /\ r_pc = "raised"
    /\ r_out.exc = "TimeoutExpired"
    /\ r_runs = 1
    /\ ~temp_dir.exists

\* C9: embedded-path requests sharing a worker do not leak plotting state into
\* each other: the image a request saves shows what that request drew, and
\* nothing drawn or cleared by another request.
C9_NoLeakBetweenRequests ==
    \A q \in Requests : w_img[q].saved => w_img[q].shows = {q}

\* C10: data injection happens whenever tabular data is supplied, an empty row
\* sequence included: the csv_data_string literal is emitted and the
\* file-loading calls are replaced.
C10_InjectionWithEmptyRows ==
    (PyInjected /\ py_in.csv_data.given) =>
        /\ Contains(modified_code, CSV_LITERAL_HEAD)
        /\ OnlyInMemoryCalls

=============================================================================
